---------------------------- MODULE Spec2Model ----------------------------
(***************************************************************************)
(* Model of Wide_Table.py: a wide table is split into sub-tables of        *)
(* no_cols columns, each sub-table is rendered as LaTeX, decorated         *)
(* (table/landscape containers, \centering, \midrule lines) and joined     *)
(* with \newpage.                                                          *)
(*                                                                         *)
(* A table is the sequence of its column labels.  A string is a sequence   *)
(* of tokens: the token "\n" is the newline character, every other token   *)
(* is a piece of text that holds no newline.  A line is therefore a        *)
(* sequence of tokens, and it equals the text "\toprule" exactly when it   *)
(* is the one-token sequence <<TopRule>>.  Indices into Python lists are   *)
(* kept 0-based, as in the source.                                         *)
(***************************************************************************)
EXTENDS Integers, Sequences, FiniteSets, TLC

VARIABLES table, no_cols, landscape, center, midrules,
          subtables, latex_tables, count, combined, pc, raised, hist, call

vars == <<table, no_cols, landscape, center, midrules,
          subtables, latex_tables, count, combined, pc, raised, hist, call>>

(***************************************************************************)
(* Bounds of the model.                                                    *)
(***************************************************************************)
MaxCols == 5
MaxNegWidth == 2
MaxOffset == 3
MaxRules == 2
MaxBlockLen == 3
MaxCalls == 2

(***************************************************************************)
(* Text literals of the source.  A command is a string: <<Centering>> is   *)
(* the one-line text "\centering".                                         *)
(***************************************************************************)
NL == "\n"
TopRule == "\\toprule"
MidRule == "\\midrule"
Centering == "\\centering"
NewPage == "\\newpage"
BottomRule == "\\bottomrule"

Begin(container) == "\\begin{" \o container \o "}"
End(container) == "\\end{" \o container \o "}"

ColumnLabels == <<"c1", "c2", "c3", "c4", "c5", "c6", "c7", "c8">>

(***************************************************************************)
(* Outcome of a call: a returned value, or an exception that propagates.   *)
(***************************************************************************)
Return(v) == [ok |-> TRUE, val |-> v, exc |-> "none"]
Raise(e) == [ok |-> FALSE, val |-> <<>>, exc |-> e]

(***************************************************************************)
(* Python built-ins used by the source.                                    *)
(***************************************************************************)
\* divmod(a, b) for b # 0: floor division, remainder with the sign of b.
divmod(a, b) == LET q == a \div b IN <<q, a - q * b>>

Min(a, b) == IF a < b THEN a ELSE b
Max(a, b) == IF a > b THEN a ELSE b

\* Normalisation of a slice bound against a length (negative counts from the end).
SliceIndex(i, n) == IF i < 0 THEN Max(i + n, 0) ELSE Min(i, n)

\* s[start:stop] and s[start:] on the 0-based sequence s.
slice(s, start, stop) ==
    SubSeq(s, SliceIndex(start, Len(s)) + 1, SliceIndex(stop, Len(s)))
slice_from(s, start) ==
    SubSeq(s, SliceIndex(start, Len(s)) + 1, Len(s))

\* [f(x) for x in range(n)]: empty when n <= 0.
Range(n) == 1 .. Max(n, 0)

\* str.split("\n"): the lines of s; always at least one line.
RECURSIVE str_split(_)
str_split(s) ==
    IF \A i \in 1..Len(s) : s[i] # NL
    THEN <<s>>
    ELSE LET i == CHOOSE k \in 1..Len(s) :
                     s[k] = NL /\ \A j \in 1..(k-1) : s[j] # NL
         IN <<SubSeq(s, 1, i - 1)>> \o str_split(SubSeq(s, i + 1, Len(s)))

\* "\n".join(lines)
RECURSIVE str_join(_)
str_join(lines) ==
    IF Len(lines) = 0 THEN <<>>
    ELSE IF Len(lines) = 1 THEN lines[1]
    ELSE lines[1] \o <<NL>> \o str_join(Tail(lines))

\* Variant: the element lands one place after the requested index.
list_insert_after(lst, i, x) ==
    LET at == SliceIndex(i + 1, Len(lst))
    IN SubSeq(lst, 1, at) \o <<x>> \o SubSeq(lst, at + 1, Len(lst))

\* list.insert(i, x): i is clamped to the list, negative i counts from the end.
list_insert(lst, i, x) ==
    LET at == SliceIndex(i, Len(lst))
    IN SubSeq(lst, 1, at) \o <<x>> \o SubSeq(lst, at + 1, Len(lst))

\* "".join(parts)
RECURSIVE concat(_)
concat(parts) ==
    IF Len(parts) = 0 THEN <<>> ELSE parts[1] \o concat(Tail(parts))

(***************************************************************************)
(* generate_subtables                                                      *)
(***************************************************************************)
\* Variant: the sign of the remainder is dropped, table.iloc[:, remainder:].
end_table_unsigned(tbl, remainder) == slice_from(tbl, remainder)

\* table.iloc[:, -remainder:]
end_table_of(tbl, remainder) == slice_from(tbl, -remainder)

\* Variant: the slice is taken with 1-based bounds.
subtable_at_one_based(tbl, x, n) == slice(tbl, x * n + 1, n * (x + 1) + 1)

\* table.iloc[:, x*no_cols:no_cols*(x+1)]
subtable_at(tbl, x, n) == slice(tbl, x * n, n * (x + 1))

generate_subtables(tbl, n) ==
    IF n = 0
    THEN Raise("ZeroDivisionError")
    ELSE LET cols == Len(tbl)
             no_subtables == divmod(cols, n)[1]
             remainder == divmod(cols, n)[2]
             end_table == end_table_of(tbl, remainder)
             full == [x \in Range(no_subtables) |-> subtable_at(tbl, x - 1, n)]
         IN Return(full \o <<end_table>>)

(***************************************************************************)
(* latex_subtables: DataFrame.to_latex of a one-row sub-table.             *)
(***************************************************************************)
Cell(label) == "v_" \o label

to_latex(st) ==
    <<Begin("tabular"), NL, TopRule, NL>>
       \o st \o <<NL, MidRule, NL>>
       \o [i \in 1..Len(st) |-> Cell(st[i])]
       \o <<NL, BottomRule, NL, End("tabular"), NL>>

latex_subtables(sts) == [i \in 1..Len(sts) |-> to_latex(sts[i])]

(***************************************************************************)
(* wrap_table                                                              *)
(***************************************************************************)
\* Variant: the begin and end statements are exchanged.
wrap_one_swapped(lt, container) ==
    <<End(container), NL>> \o lt \o <<Begin(container), NL>>

\* f"\\begin{{{container}}}\n{lt}\\end{{{container}}}\n"
wrap_one(lt, container) ==
    <<Begin(container), NL>> \o lt \o <<End(container), NL>>

wrap_table(lts, container) ==
    [i \in 1..Len(lts) |-> wrap_one(lts[i], container)]

(***************************************************************************)
(* insert_command                                                          *)
(***************************************************************************)
\* [i for i in range(len(row_split)) if row_split[i] == "\\toprule"], 0-based,
\* in increasing order.
RECURSIVE top_rule_from(_, _)
top_rule_from(row_split, i) ==
    IF i >= Len(row_split) THEN <<>>
    ELSE (IF row_split[i + 1] = <<TopRule>> THEN <<i>> ELSE <<>>)
            \o top_rule_from(row_split, i + 1)

top_rule_of(row_split) == top_rule_from(row_split, 0)

\* One iteration of the loop body on sub_table.
insert_one(sub_table, command, row) ==
    LET row_split == str_split(sub_table)
        top_rule == top_rule_of(row_split)
    IN IF Len(top_rule) = 0
       THEN Raise("IndexError")
       ELSE Return(str_join(list_insert(row_split, top_rule[1] + row, command)))

\* Variant: a block without a top rule is skipped instead of raising.
RECURSIVE insert_loop_skipping(_, _, _, _)
insert_loop_skipping(rest, command, row, latex_table_new) ==
    IF Len(rest) = 0
    THEN Return(latex_table_new)
    ELSE LET st_new == insert_one(Head(rest), command, row)
         IN insert_loop_skipping(Tail(rest), command, row,
                IF st_new.ok THEN Append(latex_table_new, st_new.val)
                             ELSE latex_table_new)

\* The loop: latex_table_new grows block by block; an exception in the body
\* leaves the function and latex_table_new is dropped.
RECURSIVE insert_loop(_, _, _, _)
insert_loop(rest, command, row, latex_table_new) ==
    IF Len(rest) = 0
    THEN Return(latex_table_new)
    ELSE LET st_new == insert_one(Head(rest), command, row)
         IN IF st_new.ok
            THEN insert_loop(Tail(rest), command, row,
                             Append(latex_table_new, st_new.val))
            ELSE Raise(st_new.exc)

insert_command(lts, command, row) == insert_loop(lts, command, row, <<>>)

(***************************************************************************)
(* combine_subtables                                                       *)
(***************************************************************************)
\* f"\\newpage\n{lt}"
new_page_of(lt) == <<NewPage, NL>> \o lt

\* Variant: the blocks are joined with a newline, "\n".join(new_page).
combine_subtables_newline(lts) ==
    str_join([i \in 1..Len(lts) |-> new_page_of(lts[i])])

combine_subtables(lts) == concat([i \in 1..Len(lts) |-> new_page_of(lts[i])])

(***************************************************************************)
(* wide_table, one action per statement.                                   *)
(***************************************************************************)
RECURSIVE SeqsUpTo(_, _)
SeqsUpTo(S, n) ==
    IF n = 0 THEN {<<>>}
    ELSE LET shorter == SeqsUpTo(S, n - 1)
         IN shorter \cup {Append(s, x) : s \in {t \in shorter : Len(t) = n - 1}, x \in S}

Tables == {SubSeq(ColumnLabels, 1, c) : c \in 1..MaxCols}
Widths == (-MaxNegWidth) .. (MaxCols + 1)
Offsets == 0 .. MaxOffset
MidruleLists == SeqsUpTo(Offsets, MaxRules)

NoCall == [op |-> "none", arg |-> <<>>, row |-> 0]

Init ==
    /\ table \in Tables
    /\ no_cols \in Widths
    /\ landscape \in BOOLEAN
    /\ center \in BOOLEAN
    /\ midrules \in MidruleLists
    /\ subtables = <<>>
    /\ latex_tables = <<>>
    /\ count = 0
    /\ combined = <<>>
    /\ pc = "generate_subtables"
    /\ raised = "none"
    /\ hist = <<>>
    /\ call = NoCall

Inputs == <<table, no_cols, landscape, center, midrules, call>>

\* subtables = generate_subtables(table, no_cols)
GenerateSubtables ==
    /\ pc = "generate_subtables"
    /\ LET r == generate_subtables(table, no_cols)
       IN IF r.ok
          THEN /\ subtables' = r.val
               /\ pc' = "latex_subtables"
               /\ raised' = raised
          ELSE /\ subtables' = subtables
               /\ pc' = "raised"
               /\ raised' = r.exc
    /\ UNCHANGED <<Inputs, latex_tables, count, combined, hist>>

\* latex_tables = latex_subtables(subtables)
LatexSubtables ==
    /\ pc = "latex_subtables"
    /\ latex_tables' = latex_subtables(subtables)
    /\ pc' = "center"
    /\ UNCHANGED <<Inputs, subtables, count, combined, raised, hist>>

\* if center: wrap_table(..., "table"), then insert_command(..., "\\centering", 0)
CenterPass ==
    /\ pc = "center"
    /\ LET r == IF center
                THEN insert_command(wrap_table(latex_tables, "table"), <<Centering>>, 0)
                ELSE Return(latex_tables)
       IN IF r.ok
          THEN /\ latex_tables' = r.val
               /\ pc' = "landscape"
               /\ raised' = raised
          ELSE /\ latex_tables' = latex_tables
               /\ pc' = "raised"
               /\ raised' = r.exc
    /\ UNCHANGED <<Inputs, subtables, count, combined, hist>>

\* if landscape: wrap_table(..., "landscape"); then the mid-rule loop is entered
LandscapePass ==
    /\ pc = "landscape"
    /\ latex_tables' = IF landscape
                       THEN wrap_table(latex_tables, "landscape")
                       ELSE latex_tables
    /\ hist' = <<latex_tables'>>
    /\ pc' = "midrules"
    /\ UNCHANGED <<Inputs, subtables, count, combined, raised>>

\* one iteration of: for count, mr in enumerate(midrules)
MidruleStep ==
    /\ pc = "midrules"
    /\ count < Len(midrules)
    /\ LET mr == midrules[count + 1]
           r == insert_command(latex_tables, <<MidRule>>, mr + count)
       IN IF r.ok
          THEN /\ latex_tables' = r.val
               /\ hist' = Append(hist, r.val)
               /\ count' = count + 1
               /\ pc' = pc
               /\ raised' = raised
          ELSE /\ UNCHANGED <<latex_tables, hist, count>>
               /\ pc' = "raised"
               /\ raised' = r.exc
    /\ UNCHANGED <<Inputs, subtables, combined>>

\* combined = combine_subtables(latex_tables); return combined
CombineSubtables ==
    /\ pc = "midrules"
    /\ count = Len(midrules)
    /\ combined' = combine_subtables(latex_tables)
    /\ pc' = "returned"
    /\ UNCHANGED <<Inputs, subtables, latex_tables, count, raised, hist>>

Next ==
    \/ GenerateSubtables
    \/ LatexSubtables
    \/ CenterPass
    \/ LandscapePass
    \/ MidruleStep
    \/ CombineSubtables

Spec == Init /\ [][Next]_vars

(***************************************************************************)
(* The decorator functions called directly on arbitrary blocks.            *)
(***************************************************************************)
Tokens == {NL, TopRule, "x"}
Blocks(n) == SeqsUpTo(Tokens, n)
BlockLists ==
    {<<b>> : b \in Blocks(MaxBlockLen)}
        \cup {<<a, b>> : a \in Blocks(MaxBlockLen - 1), b \in Blocks(MaxBlockLen - 1)}
Commands == {<<Centering>>, <<MidRule>>}
Rows == {0, 1, 2}
Containers == {"table", "landscape"}

InitDecorator ==
    /\ latex_tables \in BlockLists
    /\ hist = <<latex_tables>>
    /\ call = NoCall
    /\ pc = "decorate"
    /\ raised = "none"
    /\ table = <<>>
    /\ no_cols = 1
    /\ landscape = FALSE
    /\ center = FALSE
    /\ midrules = <<>>
    /\ subtables = <<>>
    /\ count = 0
    /\ combined = <<>>

Unused == <<table, no_cols, landscape, center, midrules, subtables, count, combined>>

\* latex_tables = wrap_table(latex_tables, container)
CallWrapTable ==
    /\ pc = "decorate"
    /\ Len(hist) <= MaxCalls
    /\ \E container \in Containers :
          /\ latex_tables' = wrap_table(latex_tables, container)
          /\ call' = [op |-> "wrap_table", arg |-> <<container>>, row |-> 0]
    /\ hist' = Append(hist, latex_tables')
    /\ UNCHANGED <<pc, raised, Unused>>

\* latex_tables = insert_command(latex_tables, command, row)
CallInsertCommand ==
    /\ pc = "decorate"
    /\ Len(hist) <= MaxCalls
    /\ \E command \in Commands, row \in Rows :
          LET r == insert_command(latex_tables, command, row)
          IN /\ call' = [op |-> "insert_command", arg |-> command, row |-> row]
             /\ IF r.ok
                THEN /\ latex_tables' = r.val
                     /\ hist' = Append(hist, r.val)
                     /\ UNCHANGED <<pc, raised>>
                ELSE /\ pc' = "raised"
                     /\ raised' = r.exc
                     /\ UNCHANGED <<latex_tables, hist>>
    /\ UNCHANGED Unused

NextDecorator == CallWrapTable \/ CallInsertCommand

SpecDecorator == InitDecorator /\ [][NextDecorator]_vars

(***************************************************************************)
(* Vocabulary of the properties.                                           *)
(***************************************************************************)
IsMarker(line) == line = <<TopRule>>
HasMarker(block) ==
    \E i \in 1..Len(str_split(block)) : IsMarker(str_split(block)[i])
MarkerIndices(lines) == {i \in 0..(Len(lines) - 1) : IsMarker(lines[i + 1])}
\* 0-based index of the first marker line (lines holds one).
FirstMarker(lines) ==
    CHOOSE i \in MarkerIndices(lines) : \A j \in MarkerIndices(lines) : i <= j
\* lines without the element at 0-based index i.
RemoveAt(lines, i) == SubSeq(lines, 1, i) \o SubSeq(lines, i + 2, Len(lines))
\* after is before with line put at 0-based index i, an index of before or its end.
InsertedAt(before, after, i, line) ==
    /\ i <= Len(before)
    /\ after = SubSeq(before, 1, i) \o <<line>> \o SubSeq(before, i + 1, Len(before))
\* Columns [a, b) of the table, 0-based.
Columns(a, b) == [i \in 1..(b - a) |-> table[a + i]]

Partitioned == pc \notin {"generate_subtables", "raised", "decorate"}
WidthInTable == 0 < no_cols /\ no_cols <= Len(table)
Q == Len(table) \div no_cols
R == Len(table) % no_cols

\* C1: for 0 < W <= C the partitioner returns Q + 1 partitions when R > 0 and
\* exactly Q partitions when R = 0 (no remainder partition when W divides C).
C1_PartitionCount ==
    (Partitioned /\ WidthInTable)
        => Len(subtables) = (IF R > 0 THEN Q + 1 ELSE Q)

\* C2: for 0 < W <= C the k-th partition (0 <= k < Q) holds columns
\* [k*W, (k+1)*W) in order, when R > 0 the last partition holds columns
\* [C-R, C), and then no column of the table is skipped.
C2_PartitionCoverage ==
    (Partitioned /\ WidthInTable)
        => /\ Len(subtables) >= Q
           /\ \A k \in 0..(Q - 1) :
                  subtables[k + 1] = Columns(k * no_cols, (k + 1) * no_cols)
           /\ R > 0 =>
                 subtables[Len(subtables)] = Columns(Len(table) - R, Len(table))
           /\ \A c \in 1..Len(table) :
                 \E p \in 1..Len(subtables) :
                    \E j \in 1..Len(subtables[p]) : subtables[p][j] = table[c]

C2_Witness ==
    /\ pc = "latex_subtables"
    /\ Len(table) = 5
    /\ no_cols = 2
    /\ Len(subtables) = 3

\* C5: for every width W <= 0 the partitioner, and so wide_table, fails and
\* returns no partitions and no output string.
C5_NonPositiveWidthFails ==
    (no_cols <= 0 /\ pc \notin {"generate_subtables", "decorate"})
        => (pc = "raised" /\ subtables = <<>> /\ combined = <<>>)

\* C9: for every width W > C >= 1 the partitioner succeeds and returns exactly
\* one partition, the whole table in its original order.
C9_WidthBeyondTable ==
    (no_cols > Len(table) /\ Len(table) >= 1
         /\ pc \notin {"generate_subtables", "decorate"})
        => (pc # "raised" /\ subtables = <<table>>)

C9_Witness ==
    /\ pc = "latex_subtables"
    /\ Len(table) >= 2
    /\ no_cols > Len(table)

\* C3: in every block the k-th mid-rule (0-indexed) is inserted at line index
\* p + m_k + k, p being the index of the first top-rule line of the block
\* before the first mid-rule insertion (stated for runs with a positive
\* column width, the runs the partitioner is specified for).
C3_CumulativeShift ==
    (pc \in {"midrules", "returned"} /\ no_cols > 0)
        => \A k \in 1..count : \A b \in 1..Len(hist[1]) :
              InsertedAt(str_split(hist[k][b]), str_split(hist[k + 1][b]),
                         FirstMarker(str_split(hist[1][b])) + midrules[k] + (k - 1),
                         <<MidRule>>)

ContainerMarks ==
    {<<Begin("landscape")>>, <<Begin("table")>>, <<End("table")>>, <<End("landscape")>>}
IsContainerLine(line) == line \in ContainerMarks
Nesting ==
    <<<<Begin("landscape")>>, <<Begin("table")>>, <<End("table")>>, <<End("landscape")>>>>
RECURSIVE Repeat(_, _)
Repeat(s, n) == IF n = 0 THEN <<>> ELSE s \o Repeat(s, n - 1)

\* C7: with center and landscape both enabled, the container lines of the
\* final output are, for each sub-table in turn, landscape-open, table-open,
\* table-close, landscape-close, whatever the mid-rule offsets.
C7_ContainerNesting ==
    (pc = "returned" /\ center /\ landscape)
        => SelectSeq(str_split(combined), IsContainerLine)
               = Repeat(Nesting, Len(subtables))

C7_Witness ==
    /\ pc = "returned"
    /\ center
    /\ landscape
    /\ Len(midrules) = 2
    /\ Len(subtables) >= 2

RECURSIVE PageBroken(_)
PageBroken(blocks) ==
    IF blocks = <<>> THEN <<>>
    ELSE <<NewPage, NL>> \o Head(blocks) \o PageBroken(Tail(blocks))

\* C8: with center and landscape disabled and no mid-rules, the output is the
\* rendered blocks in partition order, each after one \newpage line, with
\* nothing between them and no container or centering line.
C8_PlainOutput ==
    (pc = "returned" /\ ~center /\ ~landscape /\ midrules = <<>>)
        => /\ combined = PageBroken([i \in 1..Len(subtables) |-> to_latex(subtables[i])])
           /\ \A i \in 1..Len(str_split(combined)) :
                 /\ ~IsContainerLine(str_split(combined)[i])
                 /\ str_split(combined)[i] # <<Centering>>

C8_Witness ==
    /\ pc = "returned"
    /\ ~center
    /\ ~landscape
    /\ midrules = <<>>
    /\ Len(subtables) >= 2

\* The list handed to the last decorator call.
CallInput == IF pc = "raised" THEN hist[Len(hist)] ELSE hist[Len(hist) - 1]

\* C4: insert_command with offset 0 puts the command on the line immediately
\* before the first top-rule line of each block, whatever surrounds it.
C4_OffsetZero ==
    (call.op = "insert_command" /\ call.row = 0 /\ pc # "raised")
        => /\ Len(latex_tables) = Len(CallInput)
           /\ \A b \in 1..Len(latex_tables) :
                 LET in == str_split(CallInput[b])
                     out == str_split(latex_tables[b])
                 IN /\ MarkerIndices(out) # {}
                    /\ FirstMarker(out) >= 1
                    /\ out[FirstMarker(out)] = call.arg
                    /\ RemoveAt(out, FirstMarker(out) - 1) = in

C4_Witness ==
    /\ call.op = "insert_command"
    /\ call.row = 0
    /\ pc # "raised"
    /\ \E b \in 1..Len(CallInput) :
          /\ Cardinality(MarkerIndices(str_split(CallInput[b]))) >= 2
          /\ FirstMarker(str_split(CallInput[b])) >= 1

\* C6: when a block of the list has no top-rule line, insert_command raises:
\* the block is not skipped and the caller receives no list.
C6_MissingMarkerRaises ==
    (call.op = "insert_command" /\ \E b \in 1..Len(CallInput) : ~HasMarker(CallInput[b]))
        => (pc = "raised" /\ raised = "IndexError" /\ latex_tables = hist[Len(hist)])

C6_Witness ==
    /\ pc = "raised"
    /\ call.op = "insert_command"
    /\ Len(latex_tables) = 2
    /\ HasMarker(latex_tables[1])
    /\ ~HasMarker(latex_tables[2])

\* C10: on blocks that each hold a top-rule line, insert_command returns as
\* many blocks, each the input block with one line added; so after any
\* sequence of insertions and container wraps every block still holds its
\* top-rule line.
C10_FramePreserved ==
    /\ (call.op = "insert_command" /\ \A b \in 1..Len(CallInput) : HasMarker(CallInput[b]))
          => /\ pc # "raised"
             /\ Len(latex_tables) = Len(CallInput)
             /\ \A b \in 1..Len(latex_tables) :
                   LET in == str_split(CallInput[b])
                       out == str_split(latex_tables[b])
                   IN /\ Len(out) = Len(in) + 1
                      /\ \E i \in 0..Len(in) :
                            out[i + 1] = call.arg /\ RemoveAt(out, i) = in
    /\ (pc = "decorate" /\ \A b \in 1..Len(hist[1]) : HasMarker(hist[1][b]))
          => \A b \in 1..Len(latex_tables) : HasMarker(latex_tables[b])

=============================================================================
